---------------------------- MODULE Spec2Model ----------------------------
(***************************************************************************)
(* State-machine model of NewProjectForm                                   *)
(* (python/tk_mari_projectmanager/new_project_form.py): the widgets the    *)
(* form writes, the application/engine contexts it reads and changes, the  *)
(* preview updater it sends requests to, the background task manager it    *)
(* owns and the signals it emits.  One action per slot / public method.    *)
(***************************************************************************)
EXTENDS Naturals, Sequences, FiniteSets, TLC

VARIABLES
    preview_updater,            \* TRUE iff a preview updater was passed to __init__
    work_done_connected,        \* work_done is connected to _preview_info_updated
    preview_pending,            \* texts handed to preview_updater.do(), not yet answered
    work_done_unreceived,       \* work_done emissions that found no connected slot
    link_entity_types,          \* app.get_setting("link_entity_types")
    app_context,                \* self.__app.context
    engine_context,             \* self.__app.engine.context
    change_context_calls,       \* number of calls of self.__app.change_context
    context_widget_context,     \* context shown by ui.context_widget
    context_widget_restriction, \* entity-type restriction of ui.context_widget
    recent_contexts_saved,      \* context_widget.save_recent_contexts() was called
    name_edit,                  \* text of ui.name_edit
    name_preview_label,         \* text of ui.name_preview_label
    context_warning_label,      \* text of ui.context_warning_label
    project_groupbox,           \* ui.project_groupbox is enabled
    create_btn,                 \* ui.create_btn is enabled
    publish_list,               \* ui.publish_list: items, message, destroyed
    task_manager_calls,         \* teardown calls made on self.__task_manager
    shut_down_raised,           \* task_manager.shut_down() raised an Exception
    logged_exceptions,          \* number of logger.exception() calls
    close_state,                \* "open", "closed", or "raised" (closeEvent threw)
    emitted                     \* emissions of the form's own three signals

vars == <<preview_updater, work_done_connected, preview_pending,
          work_done_unreceived, link_entity_types, app_context, engine_context,
          change_context_calls, context_widget_context,
          context_widget_restriction, recent_contexts_saved, name_edit,
          name_preview_label, context_warning_label, project_groupbox,
          create_btn, publish_list, task_manager_calls, shut_down_raised,
          logged_exceptions, close_state, emitted>>

\* the form's own state: its widgets, the publish list and the app's context
form_state == <<name_edit, name_preview_label, context_warning_label,
                project_groupbox, create_btn, publish_list, app_context,
                context_widget_context, context_widget_restriction>>

-----------------------------------------------------------------------------
(* Bounds of the model *)

MaxPending == 2          \* preview requests in flight
MaxContextChanges == 2   \* change_context calls made by context selections
MaxEmits == 1            \* recorded emissions of the form's signals

-----------------------------------------------------------------------------
(* Python values *)

\* None, and a list, as the values a setting or an argument can take
PyNone == [py |-> "None"]
PyList(s) == [py |-> "list", items |-> s]

\* truth value of None / of a list in `if x:` and `if not x:`
Truthy(v) == v.py = "list" /\ v.items # <<>>

\* x in list
InList(x, v) == \E i \in 1..Len(v.items) : v.items[i] = x

\* "%s" % a list of str: its repr, ['Shot', 'Asset']
RECURSIVE ReprItems(_)
ReprItems(s) ==
    IF s = <<>> THEN ""
    ELSE IF Len(s) = 1 THEN "'" \o s[1] \o "'"
    ELSE "'" \o s[1] \o "', " \o ReprItems(Tail(s))

ListRepr(v) == "[" \o ReprItems(v.items) \o "]"

\* dict.get(key, default) for a dict whose values are str
DictGet(d, key, default) == IF key \in DOMAIN d THEN d[key] ELSE default
\* `if d.get(key):` -- a missing key (None) and "" are both false
DictGetTruthy(d, key) == key \in DOMAIN d /\ d[key] # ""

-----------------------------------------------------------------------------
(* Inputs *)

\* A context pairs an optional linked entity with an optional task; an
\* optional value is <<>> (None) or a one-element sequence.  refresh()
\* subscripts context.entity whenever context.task is set, so the contexts
\* the host hands out carry an entity whenever they carry a task.
Entity(type, id) == [type |-> type, id |-> id]
Context(entity, task) == [entity |-> entity, task |-> task]

ShotTaskCtx == Context(<<Entity("Shot", 1)>>, <<Entity("Task", 10)>>)
SequenceTaskCtx == Context(<<Entity("Sequence", 2)>>, <<Entity("Task", 20)>>)
ProjectCtx == Context(<<>>, <<>>)

Contexts == {ShotTaskCtx, SequenceTaskCtx, ProjectCtx}

LinkEntityTypeSettings ==
    {PyNone, PyList(<<>>), PyList(<<"Shot", "Asset">>)}

default_project_name == "untitled"
NameTexts == {"shot010"}

Publish(id) == [type |-> "PublishedFile", id |-> id]
PublishData ==
    {PyNone, PyList(<<>>), PyList(<<Publish(1), Publish(2)>>)}
PublishIds == {<<2, 1>>}

\* results the preview worker can deliver
PreviewResults ==
    { [project_name |-> "shot010_v001"],
      [message |-> "name taken"],
      [project_name |-> "", message |-> "name taken"],
      << >> }


-----------------------------------------------------------------------------
(* Pure parts of the handlers *)

MustAddMessage ==
    "<i>You must add at least one publish before you can create the new project...</i>"

Warning(msg) == "<p style='color:rgb(226, 146, 0)'>" \o msg \o "</p>"

InvalidLinkMessage(ent_type) ==
    "Invalid: Selected Link is of type '" \o ent_type
        \o "', but must be one of: " \o ListRepr(link_entity_types)

\* the project_name property
project_name == name_edit

\* refresh(), lines 134-139: the restriction handed to the context widget
RefreshRestriction ==
    IF Truthy(link_entity_types)
    THEN [call |-> "restrict_entity_types", args |-> link_entity_types.items]
    ELSE [call |-> "restrict_entity_types_by_link", args |-> <<"Task", "entity">>]

\* refresh(), lines 142-157: text left in context_warning_label
RefreshWarningLabel(context) ==
    IF context.task # <<>>
       /\ Truthy(link_entity_types)
       /\ ~InList(context.entity[1].type, link_entity_types)
    THEN Warning(InvalidLinkMessage(context.entity[1].type))
    ELSE ""

\* mutant: the entity type is never checked against link_entity_types
RefreshGroupbox_NoTypeCheck(context) ==
    IF context.task # <<>> THEN TRUE ELSE FALSE

\* refresh(), lines 143-157: enablement left on project_groupbox
RefreshGroupbox(context) ==
    IF context.task # <<>>
    THEN IF Truthy(link_entity_types)
         THEN IF InList(context.entity[1].type, link_entity_types)
              THEN TRUE
              ELSE FALSE
         ELSE TRUE
    ELSE FALSE

\* refresh(), lines 160-161: the preview request
RefreshPending ==
    IF preview_updater
    THEN Append(preview_pending, default_project_name)
    ELSE preview_pending

\* update_publishes(), lines 171-180: the publish list and the create button
PublishListAfter(sg_publish_data) ==
    IF ~Truthy(sg_publish_data)
    THEN [items |-> <<>>, message |-> MustAddMessage, destroyed |-> publish_list.destroyed]
    ELSE [items |-> sg_publish_data.items, message |-> "", destroyed |-> publish_list.destroyed]

\* mutant: `if sg_publish_data is None` instead of `if not sg_publish_data`
CreateBtnAfter_OnlyNone(sg_publish_data) ==
    IF sg_publish_data = PyNone THEN FALSE ELSE TRUE

CreateBtnAfter(sg_publish_data) ==
    IF ~Truthy(sg_publish_data) THEN FALSE ELSE TRUE

-----------------------------------------------------------------------------
(* Construction *)

\* __init__: connects work_done when an updater is given, shows the app's
\* context in the context widget, then update_publishes() (no argument),
\* init_proc(self) (hooks up the caller's slots) and refresh().
Init ==
    /\ preview_updater \in BOOLEAN
    /\ work_done_connected = preview_updater
    /\ work_done_unreceived = 0
    /\ link_entity_types \in LinkEntityTypeSettings
    /\ engine_context \in Contexts
    /\ app_context = engine_context
    /\ change_context_calls = 0
    /\ context_widget_context = app_context
    /\ context_widget_restriction = RefreshRestriction
    /\ recent_contexts_saved = FALSE
    /\ name_edit = default_project_name
    /\ name_preview_label = ""
    /\ context_warning_label = RefreshWarningLabel(app_context)
    /\ project_groupbox = RefreshGroupbox(app_context)
    /\ create_btn = FALSE
    /\ publish_list = [items |-> <<>>, message |-> MustAddMessage, destroyed |-> FALSE]
    /\ preview_pending = IF preview_updater THEN <<default_project_name>> ELSE <<>>
    /\ task_manager_calls = <<>>
    /\ shut_down_raised = FALSE
    /\ logged_exceptions = 0
    /\ close_state = "open"
    /\ emitted = <<>>

-----------------------------------------------------------------------------
(* Operations *)

\* mutant: the warning label is not cleared before the checks
RefreshUI_KeepsWarning(context) ==
    /\ name_edit' = default_project_name
    /\ context_widget_restriction' = RefreshRestriction
    /\ context_warning_label' =
          IF RefreshWarningLabel(context) # ""
          THEN RefreshWarningLabel(context)
          ELSE context_warning_label
    /\ project_groupbox' = RefreshGroupbox(context)
    /\ preview_pending' = RefreshPending

\* the body of refresh(), run for the context the app holds
RefreshUI(context) ==
    /\ name_edit' = default_project_name
    /\ context_widget_restriction' = RefreshRestriction
    /\ context_warning_label' = RefreshWarningLabel(context)
    /\ project_groupbox' = RefreshGroupbox(context)
    /\ preview_pending' = RefreshPending

\* room in the updater's queue for the request a refresh makes
CanRequest == preview_updater => Len(preview_pending) < MaxPending

refresh ==
    /\ close_state = "open"
    /\ CanRequest
    /\ RefreshUI(app_context)
    /\ UNCHANGED <<preview_updater, work_done_connected, work_done_unreceived,
                   link_entity_types, app_context, engine_context,
                   change_context_calls, context_widget_context,
                   recent_contexts_saved, name_preview_label, create_btn,
                   publish_list, task_manager_calls, shut_down_raised,
                   logged_exceptions, close_state, emitted>>

update_publishes(sg_publish_data) ==
    /\ close_state = "open"
    /\ publish_list' = PublishListAfter(sg_publish_data)
    /\ create_btn' = CreateBtnAfter(sg_publish_data)
    /\ UNCHANGED <<preview_updater, work_done_connected, preview_pending,
                   work_done_unreceived, link_entity_types, app_context,
                   engine_context, change_context_calls, context_widget_context,
                   context_widget_restriction, recent_contexts_saved, name_edit,
                   name_preview_label, context_warning_label, project_groupbox,
                   task_manager_calls, shut_down_raised, logged_exceptions,
                   close_state, emitted>>

\* self.__app.change_context(context): the app takes the context and the
\* form is refreshed for it ("Refresh the UI after a context change")
app_change_context(context) ==
    /\ app_context' = context
    /\ change_context_calls' = change_context_calls + 1
    /\ RefreshUI(context)

_on_item_context_change(context) ==
    /\ close_state = "open"
    /\ change_context_calls < MaxContextChanges
    /\ CanRequest
    /\ context_widget_context' = context
    /\ IF context # app_context
       THEN app_change_context(context)
       ELSE UNCHANGED <<app_context, change_context_calls, name_edit,
                        context_widget_restriction, context_warning_label,
                        project_groupbox, preview_pending>>
    /\ UNCHANGED <<preview_updater, work_done_connected, work_done_unreceived,
                   link_entity_types, engine_context, recent_contexts_saved,
                   name_preview_label, create_btn, publish_list,
                   task_manager_calls, shut_down_raised, logged_exceptions,
                   close_state, emitted>>

\* mutant: the default name is requested instead of the text entered
_on_name_edited_RequestsDefault(txt) ==
    /\ close_state = "open"
    /\ CanRequest
    /\ name_edit' = txt
    /\ preview_pending' =
          IF preview_updater THEN Append(preview_pending, default_project_name)
          ELSE preview_pending
    /\ UNCHANGED <<preview_updater, work_done_connected, work_done_unreceived,
                   link_entity_types, app_context, engine_context,
                   change_context_calls, context_widget_context,
                   context_widget_restriction, recent_contexts_saved,
                   name_preview_label, context_warning_label, project_groupbox,
                   create_btn, publish_list, task_manager_calls,
                   shut_down_raised, logged_exceptions, close_state, emitted>>

\* textEdited(txt): the line edit already holds txt when the slot runs
_on_name_edited(txt) ==
    /\ close_state = "open"
    /\ CanRequest
    /\ name_edit' = txt
    /\ preview_pending' =
          IF preview_updater THEN Append(preview_pending, project_name')
          ELSE preview_pending
    /\ UNCHANGED <<preview_updater, work_done_connected, work_done_unreceived,
                   link_entity_types, app_context, engine_context,
                   change_context_calls, context_widget_context,
                   context_widget_restriction, recent_contexts_saved,
                   name_preview_label, context_warning_label, project_groupbox,
                   create_btn, publish_list, task_manager_calls,
                   shut_down_raised, logged_exceptions, close_state, emitted>>

Emit(signal, args) ==
    /\ close_state = "open"
    /\ Len(emitted) < MaxEmits
    /\ emitted' = Append(emitted, [signal |-> signal, args |-> args])
    /\ UNCHANGED <<preview_updater, work_done_connected, preview_pending,
                   work_done_unreceived, link_entity_types, app_context,
                   engine_context, change_context_calls, context_widget_context,
                   context_widget_restriction, recent_contexts_saved, name_edit,
                   name_preview_label, context_warning_label, project_groupbox,
                   create_btn, publish_list, task_manager_calls,
                   shut_down_raised, logged_exceptions, close_state>>

_on_create_clicked == Emit("create_project", <<"self">>)

\* mutant: the add-publish slot emits the create signal
_on_add_publish_clicked_EmitsCreate == Emit("create_project", <<"self">>)

_on_add_publish_clicked == Emit("browse_publishes", <<"self">>)

_on_remove_selected_publishes(publish_ids) ==
    Emit("remove_publishes", <<"self", publish_ids>>)

\* mutant: `if "project_name" in result` instead of `if project_name`
_preview_info_updated_KeyTest(name, result) ==
    name_preview_label' =
        IF "project_name" \in DOMAIN result
        THEN "<b>" \o result["project_name"] \o "</b>"
        ELSE Warning(DictGet(result, "message", ""))

\* the slot connected to work_done
_preview_info_updated(name, result) ==
    name_preview_label' =
        IF DictGetTruthy(result, "project_name")
        THEN "<b>" \o result["project_name"] \o "</b>"
        ELSE Warning(DictGet(result, "message", ""))

RemoveAt(s, i) == SubSeq(s, 1, i - 1) \o SubSeq(s, i + 1, Len(s))

\* the preview worker finishes any one of the requests it was handed and
\* emits work_done(name, result)
work_done(i, result) ==
    /\ i \in 1..Len(preview_pending)
    /\ preview_pending' = RemoveAt(preview_pending, i)
    /\ IF work_done_connected
       THEN /\ _preview_info_updated(preview_pending[i], result)
            /\ UNCHANGED work_done_unreceived
       ELSE /\ work_done_unreceived' = work_done_unreceived + 1
            /\ UNCHANGED name_preview_label
    /\ UNCHANGED <<preview_updater, work_done_connected, link_entity_types,
                   app_context, engine_context, change_context_calls,
                   context_widget_context, context_widget_restriction,
                   recent_contexts_saved, name_edit, context_warning_label,
                   project_groupbox, create_btn, publish_list,
                   task_manager_calls, shut_down_raised, logged_exceptions,
                   close_state, emitted>>

\* mutant: work_done is left connected
CloseDisconnect_Missing ==
    UNCHANGED work_done_connected

\* closeEvent(), lines 193-195: disconnect the preview updater
CloseDisconnect ==
    work_done_connected' = IF preview_updater THEN FALSE ELSE work_done_connected

\* mutant: the task manager is shut down before it is unregistered
CloseTaskManager_ShutDownFirst(shut_down_fails) ==
    /\ task_manager_calls' =
          task_manager_calls \o <<"shut_down", "unregister_bg_task_manager">>
    /\ shut_down_raised' = shut_down_fails
    /\ logged_exceptions' =
          IF shut_down_fails THEN logged_exceptions + 1 ELSE logged_exceptions

\* closeEvent(), lines 197-204: unregister the task manager, then shut it
\* down; an Exception from shut_down() is logged and swallowed
CloseTaskManager(shut_down_fails) ==
    /\ task_manager_calls' =
          task_manager_calls \o <<"unregister_bg_task_manager", "shut_down">>
    /\ shut_down_raised' = shut_down_fails
    /\ logged_exceptions' =
          IF shut_down_fails THEN logged_exceptions + 1 ELSE logged_exceptions

\* mutant: the context is reset whether or not it was changed
CloseResetContext_Always ==
    app_change_context(engine_context)

\* closeEvent(), lines 209-211: reset the context if it was changed
CloseResetContext ==
    IF app_context # engine_context
    THEN app_change_context(engine_context)
    ELSE UNCHANGED <<app_context, change_context_calls, name_edit,
                     context_widget_restriction, context_warning_label,
                     project_groupbox, preview_pending>>

\* mutant: shut_down() is called outside any try block, so its exception
\* leaves closeEvent before the remaining steps
closeEvent_NoTry(shut_down_fails) ==
    /\ close_state = "open"
    /\ app_context # engine_context => CanRequest
    /\ publish_list' = [publish_list EXCEPT !.destroyed = TRUE]
    /\ CloseDisconnect
    /\ task_manager_calls' =
          task_manager_calls \o <<"unregister_bg_task_manager", "shut_down">>
    /\ shut_down_raised' = shut_down_fails
    /\ IF shut_down_fails
       THEN /\ close_state' = "raised"
            /\ UNCHANGED <<logged_exceptions, recent_contexts_saved, app_context,
                           change_context_calls, name_edit,
                           context_widget_restriction, context_warning_label,
                           project_groupbox, preview_pending>>
       ELSE /\ UNCHANGED logged_exceptions
            /\ recent_contexts_saved' = TRUE
            /\ CloseResetContext
            /\ close_state' = "closed"
    /\ UNCHANGED <<preview_updater, work_done_unreceived, link_entity_types,
                   engine_context, context_widget_context, name_preview_label,
                   create_btn, emitted>>

\* closeEvent(event); shut_down_fails: task_manager.shut_down() raises.
\* close_state becomes "closed" when the base QWidget.closeEvent is reached.
closeEvent(shut_down_fails) ==
    /\ close_state = "open"
    /\ app_context # engine_context => CanRequest
    /\ publish_list' = [publish_list EXCEPT !.destroyed = TRUE]
    /\ CloseDisconnect
    /\ CloseTaskManager(shut_down_fails)
    /\ recent_contexts_saved' = TRUE
    /\ CloseResetContext
    /\ close_state' = "closed"
    /\ UNCHANGED <<preview_updater, work_done_unreceived, link_entity_types,
                   engine_context, context_widget_context, name_preview_label,
                   create_btn, emitted>>

-----------------------------------------------------------------------------
(* Specification *)

UpdatePublishes == \E sg_publish_data \in PublishData : update_publishes(sg_publish_data)
ContextSelected == \E context \in Contexts : _on_item_context_change(context)
NameEdited == \E txt \in NameTexts : _on_name_edited(txt)
RemoveRequested == \E publish_ids \in PublishIds : _on_remove_selected_publishes(publish_ids)
PreviewDone ==
    \E i \in 1..MaxPending + 1 : \E result \in PreviewResults : work_done(i, result)
Close == \E shut_down_fails \in BOOLEAN : closeEvent(shut_down_fails)

Next ==
    \/ refresh
    \/ UpdatePublishes
    \/ ContextSelected
    \/ NameEdited
    \/ _on_create_clicked
    \/ _on_add_publish_clicked
    \/ RemoveRequested
    \/ PreviewDone
    \/ Close

Spec == Init /\ [][Next]_vars

-----------------------------------------------------------------------------
(* Properties *)

NonEmptyList(v) == v \notin {PyNone, PyList(<<>>)}

\* C1: the create button is enabled exactly when the publish list holds
\* records; every update_publishes(None) or update_publishes([]) leaves the
\* list empty with the "must add at least one publish" message and the
\* button disabled, every update_publishes of a non-empty list loads exactly
\* those records and enables the button, and nothing else moves the button.
C1_UpdatePublishes ==
    /\ [](/\ create_btn <=> publish_list.items # <<>>
          /\ publish_list.items = <<>> => publish_list.message = MustAddMessage)
    /\ [][\A d \in PublishData :
            update_publishes(d) =>
               IF NonEmptyList(d)
               THEN create_btn' /\ publish_list'.items = d.items
               ELSE /\ ~create_btn'
                    /\ publish_list'.items = <<>>
                    /\ publish_list'.message = MustAddMessage]_vars
    /\ [][create_btn' # create_btn =>
            \E d \in PublishData : update_publishes(d)]_vars

C1_Witness ==
    /\ create_btn
    /\ publish_list.items = <<Publish(1), Publish(2)>>

\* C2: in every reachable state the project-settings group box is enabled
\* only if the app's current context has a task and, when link_entity_types
\* is configured, the linked entity's type is one of the allowed types.
C2_GroupboxOnlyForValidTask ==
    project_groupbox =>
        /\ app_context.task # <<>>
        /\ NonEmptyList(link_entity_types) =>
              \E i \in DOMAIN link_entity_types.items :
                  link_entity_types.items[i] = app_context.entity[1].type

\* a context without a task was selected in a form opened in a Shot task
C2_Witness ==
    /\ close_state = "open"
    /\ engine_context = ShotTaskCtx
    /\ app_context = ProjectCtx
    /\ ~project_groupbox

\* C3: a refresh() in a context with a task leaves the section disabled and
\* the warning naming the type and the allowed types when link_entity_types
\* is configured and does not hold the linked entity's type; in every other
\* case with a task it leaves the section enabled and the warning empty.
C3_RefreshWithTask ==
    [][(refresh /\ app_context.task # <<>>) =>
          IF /\ NonEmptyList(link_entity_types)
             /\ \A i \in DOMAIN link_entity_types.items :
                   link_entity_types.items[i] # app_context.entity[1].type
          THEN /\ ~project_groupbox'
               /\ context_warning_label' # ""
               /\ (link_entity_types = PyList(<<"Shot", "Asset">>)
                     /\ app_context = SequenceTaskCtx) =>
                       context_warning_label' =
                          "<p style='color:rgb(226, 146, 0)'>Invalid: Selected Link is of type 'Sequence', but must be one of: ['Shot', 'Asset']</p>"
          ELSE /\ project_groupbox'
               /\ context_warning_label' = ""]_vars

\* a Shot task was selected after a Sequence task had raised the warning
C3_Witness ==
    /\ close_state = "open"
    /\ link_entity_types = PyList(<<"Shot", "Asset">>)
    /\ engine_context = SequenceTaskCtx
    /\ app_context = ShotTaskCtx
    /\ project_groupbox
    /\ context_warning_label = ""

\* C4: with a preview updater, each edit of the name field adds exactly one
\* preview request, for the text now in the field, and each change of the
\* app's context adds exactly one, for the default project name.
C4_OneRequestPerEvent ==
    [][preview_updater =>
          /\ \A txt \in NameTexts :
                _on_name_edited(txt) =>
                   /\ name_edit' = txt
                   /\ preview_pending' = Append(preview_pending, name_edit')
          /\ app_context' # app_context =>
                preview_pending' = Append(preview_pending, default_project_name)]_vars

\* the edited name, then the default name of a context change, both in flight
C4_Witness ==
    /\ preview_updater
    /\ change_context_calls = 1
    /\ preview_pending = <<"shot010", default_project_name>>

C6_ShutDownFailureSwallowed ==
    /\ close_state # "raised"
    /\ shut_down_raised =>
          /\ logged_exceptions = 1
          /\ recent_contexts_saved
          /\ app_context = engine_context
          /\ close_state = "closed"
    /\ close_state = "closed" =>
          /\ recent_contexts_saved
          /\ app_context = engine_context
          /\ logged_exceptions = IF shut_down_raised THEN 1 ELSE 0

\* shut_down() raised in a close that had a changed context to restore
C6_Witness ==
    /\ shut_down_raised
    /\ close_state = "closed"
    /\ change_context_calls = 2
    /\ context_widget_context # engine_context

PreviewLabelFor(result) ==
    IF "project_name" \in DOMAIN result /\ result["project_name"] # ""
    THEN "<b>" \o result["project_name"] \o "</b>"
    ELSE IF "message" \in DOMAIN result
         THEN "<p style='color:rgb(226, 146, 0)'>" \o result["message"] \o "</p>"
         ELSE "<p style='color:rgb(226, 146, 0)'></p>"

\* C7: every delivered completion, of whichever pending request, sets the
\* preview label from its result alone: the name in bold when project_name
\* is non-empty, else the message (or nothing) as a warning; and nothing
\* but a completion changes the label.
C7_LastReplyWins ==
    /\ [][(work_done_connected /\ preview_pending' # preview_pending) =>
            \A i \in 1..MaxPending + 1 : \A result \in PreviewResults :
               work_done(i, result) =>
                  name_preview_label' = PreviewLabelFor(result)]_vars
    /\ [][name_preview_label' # name_preview_label =>
            \E i \in 1..MaxPending + 1 : \E result \in PreviewResults :
               work_done(i, result)]_vars

\* the request of the last name edit was answered while the older request
\* for the default name is still pending
C7_Witness ==
    /\ name_edit = "shot010"
    /\ preview_pending = <<default_project_name>>
    /\ name_preview_label = "<b>shot010_v001</b>"

C9_NoPreviewAfterClose ==
    /\ [](work_done_connected <=> (preview_updater /\ close_state = "open"))
    /\ [][close_state # "open" =>
            name_preview_label' = name_preview_label]_vars

\* a request issued before the close was answered after it
C9_Witness ==
    /\ close_state = "closed"
    /\ change_context_calls = 0
    /\ work_done_unreceived = 1
    /\ preview_pending = <<>>

\* C10: each of the three slots appends exactly one emission of its own
\* signal, with the form as payload and, for a removal, the ids it was
\* given, and changes nothing of the form.
C10_SlotsOnlyEmit ==
    [][/\ _on_create_clicked =>
             /\ emitted' = Append(emitted, [signal |-> "create_project", args |-> <<"self">>])
             /\ UNCHANGED form_state
       /\ _on_add_publish_clicked =>
             /\ emitted' = Append(emitted, [signal |-> "browse_publishes", args |-> <<"self">>])
             /\ UNCHANGED form_state
       /\ \A publish_ids \in PublishIds :
             _on_remove_selected_publishes(publish_ids) =>
                /\ emitted' = Append(emitted, [signal |-> "remove_publishes",
                                               args |-> <<"self", publish_ids>>])
                /\ UNCHANGED form_state]_vars

C10_Witness ==
    /\ emitted = <<[signal |-> "remove_publishes", args |-> <<"self", <<2, 1>>>>]>>
    /\ create_btn

=============================================================================
